---- MODULE Spec2Model ----
(***************************************************************************)
(* GameGleaner (src/scraper/GameGleaner.py): run_scraper scrapes two pages *)
(* of two itch.io listings, downloads each game's thumbnail, and merges    *)
(* the scraped rows into data/combined.csv.                                *)
(*                                                                         *)
(* Text is modelled by strings.  Where the code works on the characters    *)
(* of a text (strip, re.sub, split) the text is taken apart by Chars and   *)
(* put together again by Join.  None and NaN are Python's None and the     *)
(* float NaN pandas uses for a missing value; neither is a text.           *)
(*                                                                         *)
(* pandas.read_csv is modelled on text columns: a field whose text is one  *)
(* of pandas' default NA markers is read back as NaN.  Titles that read    *)
(* back as numbers are outside the model's inputs.                         *)
(***************************************************************************)
EXTENDS Naturals, Sequences, FiniteSets, TLC

(* ------------------------------ bounds --------------------------------- *)

\* Runs of run_scraper in one behaviour.
MaxRuns == 2
\* Game cells the site serves, in total, over the runs of one behaviour.
MaxCells == 2
\* Longest dataset or batch given to the merge in SpecMerge.
MaxLen == 2

(* ------------------------- program constants --------------------------- *)

BASE_URL == "https://itch.io"
\* range(1, 3): the first page and the page the loop stops before.
FirstPage == 1
StopPage == 3
\* [:50], the cut of the sanitized title.
SafeTitleLen == 50
\* The pages dict, in insertion order.
Labels == <<"Top Sellers", "Popular">>

None == "<None>"
NaN == "<NaN>"

(* ------------------------------- text ---------------------------------- *)

\* The characters of the texts the model's site serves.
Chars(s) ==
    CASE s = "" -> <<>>
      [] s = " A! " -> <<" ", "A", "!", " ">>
      [] s = "A!" -> <<"A", "!">>
      [] s = "N/A" -> <<"N", "/", "A">>
      [] s = " $5" -> <<" ", "$", "5">>
      [] s = "$3 " -> <<"$", "3", " ">>
      [] s = "dev " -> <<"d", "e", "v", " ">>
      [] s = "i.io/a.png?v=1" ->
           <<"i", ".", "i", "o", "/", "a", ".", "p", "n", "g", "?", "v", "=", "1">>

RECURSIVE Join(_)
Join(cs) == IF cs = <<>> THEN "" ELSE Head(cs) \o Join(Tail(cs))

Whitespace == {" "}

RECURSIVE LStrip(_)
LStrip(cs) ==
    IF cs # <<>> /\ Head(cs) \in Whitespace THEN LStrip(Tail(cs)) ELSE cs

RECURSIVE RStrip(_)
RStrip(cs) ==
    IF cs # <<>> /\ cs[Len(cs)] \in Whitespace
    THEN RStrip(SubSeq(cs, 1, Len(cs) - 1))
    ELSE cs

\* str.strip()
Strip(s) == Join(RStrip(LStrip(Chars(s))))

\* The characters [a-zA-Z0-9_-] keeps.
SafeChars ==
    {"a", "b", "c", "d", "e", "f", "g", "h", "i", "j", "k", "l", "m",
     "n", "o", "p", "q", "r", "s", "t", "u", "v", "w", "x", "y", "z",
     "A", "B", "C", "D", "E", "F", "G", "H", "I", "J", "K", "L", "M",
     "N", "O", "P", "Q", "R", "S", "T", "U", "V", "W", "X", "Y", "Z",
     "0", "1", "2", "3", "4", "5", "6", "7", "8", "9", "_", "-"}

\* re.sub(r"[^a-zA-Z0-9_-]", "_", title)[:50]
SafeTitle(title) ==
    LET cs == Chars(title)
        sub == [i \in 1..Len(cs) |-> IF cs[i] \in SafeChars THEN cs[i] ELSE "_"]
        n == IF Len(sub) < SafeTitleLen THEN Len(sub) ELSE SafeTitleLen
    IN Join(SubSeq(sub, 1, n))

\* s.split(sep)[-1] on characters: what follows the last sep.
RECURSIVE AfterLast(_, _)
AfterLast(cs, sep) ==
    IF \E i \in 1..Len(cs) : cs[i] = sep
    THEN AfterLast(Tail(cs), sep)
    ELSE cs

\* s.split(sep)[0] on characters: what precedes the first sep.
RECURSIVE BeforeFirst(_, _)
BeforeFirst(cs, sep) ==
    IF cs = <<>> \/ Head(cs) = sep
    THEN <<>>
    ELSE <<Head(cs)>> \o BeforeFirst(Tail(cs), sep)

\* thumbnail_url.split(".")[-1].split("?")[0]
Ext(thumbnail_url) == Join(BeforeFirst(AfterLast(Chars(thumbnail_url), "."), "?"))

\* str(date.today()) of the model's day d.
DateStr(d) == "2024-01-0" \o ToString(d)

\* os.path.join("data", "thumbnails", f"{scrape_date}_{safe_title}.{ext}")
ThumbPath(thumbnail_url, title, scrape_date) ==
    "data/thumbnails/" \o scrape_date \o "_" \o SafeTitle(title)
        \o "." \o Ext(thumbnail_url)

\* urljoin(BASE_URL, href) for a site-relative href.
Urljoin(base, href) == base \o href

(* ----------------------------- the site -------------------------------- *)

\* A .game_cell: the text of each element the selectors look for, or None
\* where the element (or attribute) is missing.
Cell(title, href, author, price, lazy, src) ==
    [title |-> title, href |-> href, author |-> author, price |-> price,
     lazy |-> lazy, src |-> src]

\* One game at two prices (the second time without an author link), and a
\* cell none of the selectors match.
GameAt5 == Cell(" A! ", "/g", "dev ", " $5", "i.io/a.png?v=1", None)
GameAt3 == Cell(" A! ", "/g", None, "$3 ", None, "i.io/a.png?v=1")
BareCell == Cell(None, None, None, None, None, None)
Cells == {GameAt5, GameAt3, BareCell}

\* What requests.get of a thumbnail does: status 200, or any other status or
\* exception.
Responses == {"200", "error"}

ThumbUrls == {"i.io/a.png?v=1"}

(* ----------------------------- the state ------------------------------- *)

VARIABLES
    csv,          \* data/combined.csv
    thumbs,       \* data/thumbnails: path -> times written
    net,          \* thumbnail requests and network GETs so far
    pc,           \* where run_scraper is: "idle", "scrape", "merge"
    pos,          \* the loops' position: listing index and page
    all_games,    \* the rows scraped so far in this run
    pageLog,      \* this run's listing pages: what each fetch gave
    scrape_date,  \* the day of the current (or last) run
    runs,         \* runs started
    status,       \* how the last run ended: "none", "running", "ok", "error"
    lastRun,      \* what the last finished run met
    served,       \* game cells the site has served so far
    hist,         \* the batches of the finished runs (SpecHist only)
    m             \* inputs and results of the merge alone (SpecMerge only)

vars == <<csv, thumbs, net, pc, pos, all_games, pageLog, scrape_date, runs,
          status, lastRun, served, hist, m>>

(* ------------------------- thumbnails (16-62) -------------------------- *)

\* The thumbnail directory and the network counters, threaded through a page.
Files(t, n) == [thumbs |-> t, net |-> n]

Bump(f, k) == [f EXCEPT ![k] = @ + 1]

\* open(filepath, "wb").write(r.content): the file is (re)written.
WriteThumb(t, path) ==
    [p \in DOMAIN t \cup {path} |-> IF p = path
                                      THEN (IF p \in DOMAIN t THEN t[p] ELSE 0) + 1
                                      ELSE t[p]]

\* download_thumbnail as a cache would do it: an existing file is returned
\* without a network call.
DownloadThumbnailCached(thumbnail_url, title, date, resp, fs) ==
    IF thumbnail_url = None \/ thumbnail_url = ""
    THEN [path |-> None, fs |-> fs]
    ELSE LET filepath == ThumbPath(thumbnail_url, title, date)
             asked == [fs.net EXCEPT !.reqs = Bump(@, thumbnail_url)]
             got == [asked EXCEPT !.gets = Bump(@, thumbnail_url)]
         IN IF filepath \in DOMAIN fs.thumbs
            THEN [path |-> filepath, fs |-> Files(fs.thumbs, asked)]
            ELSE IF resp = "200"
                 THEN [path |-> filepath,
                       fs |-> Files(WriteThumb(fs.thumbs, filepath), got)]
                 ELSE [path |-> None, fs |-> Files(fs.thumbs, got)]

\* download_thumbnail: always one requests.get; on status 200 the file at the
\* derived path is written and the path returned, otherwise None.
DownloadThumbnail(thumbnail_url, title, date, resp, fs) ==
    IF thumbnail_url = None \/ thumbnail_url = ""
    THEN [path |-> None, fs |-> fs]
    ELSE LET filepath == ThumbPath(thumbnail_url, title, date)
             hit == IF filepath \in DOMAIN fs.thumbs THEN 1 ELSE 0
             n == [reqs |-> Bump(fs.net.reqs, thumbnail_url),
                   gets |-> Bump(fs.net.gets, thumbnail_url),
                   hitGets |-> fs.net.hitGets + hit]
         IN IF resp = "200"
            THEN [path |-> filepath,
                  fs |-> Files(WriteThumb(fs.thumbs, filepath), n)]
            ELSE [path |-> None, fs |-> Files(fs.thumbs, n)]

(* ---------------------- scrape_listing_page (65-120) ------------------- *)

\* data-lazy_src if the img has it, else src, else None.
ThumbnailUrl(item) ==
    IF item.lazy # None THEN item.lazy
    ELSE IF item.src # None THEN item.src
    ELSE None

\* The for-loop over the page's .game_cell items.
RECURSIVE ScrapeItems(_, _, _, _)
ScrapeItems(items, resps, date, fs) ==
    IF items = <<>>
    THEN [games |-> <<>>, fs |-> fs]
    ELSE LET item == Head(items)
             title == IF item.title # None THEN Strip(item.title) ELSE "N/A"
             rel == IF item.title # None /\ item.href # None THEN item.href ELSE ""
             url == IF rel # "" THEN Urljoin(BASE_URL, rel) ELSE "N/A"
             author == IF item.author # None THEN Strip(item.author) ELSE "N/A"
             price == IF item.price # None THEN Strip(item.price) ELSE "Free"
             dl == DownloadThumbnail(ThumbnailUrl(item), title, date, Head(resps), fs)
             game_data == [title |-> title, url |-> url, author |-> author,
                           price |-> price, thumbnail_path |-> dl.path,
                           scrape_date |-> date]
             rest == ScrapeItems(Tail(items), Tail(resps), date, dl.fs)
         IN [games |-> <<game_data>> \o rest.games, fs |-> rest.fs]

\* A failed fetch of the page gives [] ; otherwise the page's cells are scraped.
ScrapeListingPage(fetched, items, resps, date, fs) ==
    IF ~fetched
    THEN [games |-> <<>>, fs |-> fs]
    ELSE ScrapeItems(items, resps, date, fs)

(* ----------------------- the CSV and the merge ------------------------- *)

\* The texts read_csv reads as missing (those of pandas' defaults the
\* scraper can write).
NaValues == {"", "N/A"}

\* to_csv of one value: a missing value is written as the empty field.
ToCsvField(v) == IF v = NaN \/ v = None THEN "" ELSE v

\* read_csv of one field.
FromCsvField(t) == IF t \in NaValues THEN NaN ELSE t

\* The columns of a row; listing is not one of them: it records the listing
\* the row was scraped from, for the claims that speak of it.
ToCsvRow(r) ==
    [title |-> ToCsvField(r.title), url |-> ToCsvField(r.url),
     author |-> ToCsvField(r.author), price |-> ToCsvField(r.price),
     thumbnail_path |-> ToCsvField(r.thumbnail_path),
     scrape_date |-> ToCsvField(r.scrape_date), listing |-> r.listing]

FromCsvRow(r) ==
    [title |-> FromCsvField(r.title), url |-> FromCsvField(r.url),
     author |-> FromCsvField(r.author), price |-> FromCsvField(r.price),
     thumbnail_path |-> FromCsvField(r.thumbnail_path),
     scrape_date |-> FromCsvField(r.scrape_date), listing |-> r.listing]

NoFile == [exists |-> FALSE, header |-> FALSE, rows |-> <<>>]

\* df.to_csv(path, index=False): a frame without columns (pd.DataFrame([]))
\* writes no header line.
ToCsv(rows, columns) ==
    [exists |-> TRUE, header |-> columns,
     rows |-> [i \in 1..Len(rows) |-> ToCsvRow(rows[i])]]

\* pd.read_csv as a store that tolerates an unreadable file would do it.
ReadCsvLenient(file) ==
    [ok |-> TRUE,
     rows |-> IF file.header
              THEN [i \in 1..Len(file.rows) |-> FromCsvRow(file.rows[i])]
              ELSE <<>>]

\* pd.read_csv: a file with no header line raises EmptyDataError.
ReadCsv(file) ==
    [ok |-> file.header,
     rows |-> [i \in 1..Len(file.rows) |-> FromCsvRow(file.rows[i])]]

\* subset=["title", "url"]
Key(r) == <<r.title, r.url>>

\* drop_duplicates(..., keep="last")
DropDuplicatesLast(df) ==
    LET F[i \in 0..Len(df)] ==
            IF i = 0 THEN <<>>
            ELSE IF \E j \in (i + 1)..Len(df) : Key(df[j]) = Key(df[i])
                 THEN F[i - 1]
                 ELSE Append(F[i - 1], df[i])
    IN F[Len(df)]

\* drop_duplicates(..., keep=False)
DropDuplicatesAll(df) ==
    LET F[i \in 0..Len(df)] ==
            IF i = 0 THEN <<>>
            ELSE IF \E j \in 1..Len(df) : j # i /\ Key(df[j]) = Key(df[i])
                 THEN F[i - 1]
                 ELSE Append(F[i - 1], df[i])
    IN F[Len(df)]

\* drop_duplicates(subset=["title", "url"], keep="first"); NaN equals NaN.
DropDuplicates(df) ==
    LET F[i \in 0..Len(df)] ==
            IF i = 0 THEN <<>>
            ELSE IF \E j \in 1..(i - 1) : Key(df[j]) = Key(df[i])
                 THEN F[i - 1]
                 ELSE Append(F[i - 1], df[i])
    IN F[Len(df)]

\* The merge that forgets the stored rows.
MergeOverwrite(old_df, df) == DropDuplicates(df)

\* pd.concat([old_df, df], ignore_index=True).drop_duplicates(...)
Merge(old_df, df) == DropDuplicates(old_df \o df)

\* Lines 155-170: load, merge and save.  An unreadable file ends the run
\* in the exception read_csv raises, before to_csv.
LoadMergeSave(file, games) ==
    IF file.exists
    THEN LET old == ReadCsv(file)
         IN IF ~old.ok
            THEN [status |-> "error", csv |-> file]
            ELSE [status |-> "ok", csv |-> ToCsv(Merge(old.rows, games), TRUE)]
    ELSE [status |-> "ok", csv |-> ToCsv(games, games # <<>>)]

(* --------------------------- run_scraper ------------------------------- *)

SeqsUpTo(S, n) == UNION {[1..k -> S] : k \in 0..n}

\* The rows of a page, each with the listing it came from.
Tag(games, label) ==
    [i \in 1..Len(games) |->
        [title |-> games[i].title, url |-> games[i].url,
         author |-> games[i].author, price |-> games[i].price,
         thumbnail_path |-> games[i].thumbnail_path,
         scrape_date |-> games[i].scrape_date, listing |-> label]]

\* What a fetch of a listing page gave.
Outcome(fetched, items) ==
    IF ~fetched THEN "failed" ELSE IF items = <<>> THEN "empty" ELSE "items"

\* Pagination that gives up a listing at its first failed page.
AdvanceBreakOnFailure(p, outcome) ==
    IF outcome # "failed" /\ p.page + 1 < StopPage
    THEN [li |-> p.li, page |-> p.page + 1]
    ELSE [li |-> p.li + 1, page |-> FirstPage]

\* Pagination that gives up a listing at its first page without cells.
AdvanceStopOnEmpty(p, outcome) ==
    IF outcome # "empty" /\ p.page + 1 < StopPage
    THEN [li |-> p.li, page |-> p.page + 1]
    ELSE [li |-> p.li + 1, page |-> FirstPage]

\* The two for-loops: the next (listing, page), whatever the page gave.
Advance(p, outcome) ==
    IF p.page + 1 < StopPage
    THEN [li |-> p.li, page |-> p.page + 1]
    ELSE [li |-> p.li + 1, page |-> FirstPage]

NoNet == [reqs |-> [u \in ThumbUrls |-> 0], gets |-> [u \in ThumbUrls |-> 0],
          hitGets |-> 0]

NoHist == [batches |-> <<>>, lastGames |-> <<>>, prevGames |-> <<>>,
           prevCsv |-> NoFile]

NoMerge == [phase |-> "off", E |-> <<>>, N |-> <<>>, once |-> <<>>, twice |-> <<>>]

\* Before the first run: no combined.csv, no thumbnails.
Init ==
    /\ csv = NoFile
    /\ thumbs = <<>>
    /\ net = NoNet
    /\ pc = "idle"
    /\ pos = [li |-> 1, page |-> FirstPage]
    /\ all_games = <<>>
    /\ pageLog = <<>>
    /\ scrape_date = 1
    /\ runs = 0
    /\ status = "none"
    /\ lastRun = [failed |-> "none", rows |-> FALSE]
    /\ hist = NoHist
    /\ served = 0
    /\ m = NoMerge

\* Lines 130-142: a run starts, today or on the day after the last run.
StartRun ==
    /\ pc = "idle"
    /\ runs < MaxRuns
    /\ \E d \in {scrape_date, scrape_date + 1} :
          /\ runs = 0 => d = scrape_date
          /\ scrape_date' = d
    /\ runs' = runs + 1
    /\ pc' = "scrape"
    /\ pos' = [li |-> 1, page |-> FirstPage]
    /\ all_games' = <<>>
    /\ pageLog' = <<>>
    /\ status' = "running"
    /\ UNCHANGED <<csv, thumbs, net, lastRun, hist, m, served>>

\* Lines 145-152, one iteration: a listing page is fetched and scraped, its
\* thumbnails downloaded, its rows appended to all_games.
ScrapePage ==
    /\ pc = "scrape"
    /\ \E fetched \in BOOLEAN :
       \E items \in SeqsUpTo(Cells, MaxCells - served) :
       \E resps \in [1..Len(items) -> Responses] :
          /\ ~fetched => items = <<>>
          /\ \A i \in 1..Len(items) :
                ThumbnailUrl(items[i]) = None => resps[i] = "200"
          /\ LET got == ScrapeListingPage(fetched, items, resps,
                                          DateStr(scrape_date), Files(thumbs, net))
                 outcome == Outcome(fetched, items)
                 next == Advance(pos, outcome)
             IN /\ all_games' = all_games \o Tag(got.games, Labels[pos.li])
                /\ thumbs' = got.fs.thumbs
                /\ net' = got.fs.net
                /\ pageLog' = Append(pageLog, [listing |-> Labels[pos.li],
                                               page |-> pos.page,
                                               outcome |-> outcome])
                /\ pos' = next
                /\ pc' = IF next.li > Len(Labels) THEN "merge" ELSE "scrape"
    /\ UNCHANGED <<csv, scrape_date, runs, status, lastRun, hist, m>>
    /\ served' = served + (Len(all_games') - Len(all_games))

\* Whether none, some or all of the run's page fetches failed.
Failures(log) ==
    IF \A i \in 1..Len(log) : log[i].outcome # "failed" THEN "none"
    ELSE IF \A i \in 1..Len(log) : log[i].outcome = "failed" THEN "all"
    ELSE "some"

\* Lines 154-171, and the end of the run.
Finish ==
    /\ pc = "merge"
    /\ LET r == LoadMergeSave(csv, all_games)
       IN /\ csv' = r.csv
          /\ status' = r.status
    /\ lastRun' = [failed |-> Failures(pageLog), rows |-> all_games # <<>>]
    /\ pc' = "idle"
    /\ all_games' = <<>>
    /\ pageLog' = <<>>
    /\ UNCHANGED <<thumbs, net, pos, scrape_date, runs, m, served>>

MergeAndSave == Finish /\ UNCHANGED hist

Next == StartRun \/ ScrapePage \/ MergeAndSave

Spec == Init /\ [][Next]_vars

(* ---------------- the runs with their history recorded ----------------- *)

\* Finish, remembering the rows of every finished run and the file as it
\* was before this run.
MergeAndSaveRecorded ==
    /\ Finish
    /\ hist' = IF status' = "ok"
               THEN [batches |-> hist.batches \o all_games,
                     lastGames |-> all_games,
                     prevGames |-> hist.lastGames,
                     prevCsv |-> csv]
               ELSE hist

NextHist == StartRun \/ ScrapePage \/ MergeAndSaveRecorded

SpecHist == Init /\ [][NextHist]_vars

(* -------------------------- the merge alone ---------------------------- *)

\* A frame row as the merge sees it: what was read from the file or scraped.
FrameRow(title, url, price) ==
    [title |-> title, url |-> url, author |-> "dev", price |-> price,
     thumbnail_path |-> NaN, scrape_date |-> DateStr(1), listing |-> Labels[1]]

FrameRows ==
    {FrameRow("A!", "https://itch.io/g", "$5"),
     FrameRow("A!", "https://itch.io/g", "$3"),
     FrameRow(NaN, NaN, "Free"),
     FrameRow("N/A", "N/A", "Free")}

InitMerge ==
    /\ csv = NoFile
    /\ thumbs = <<>>
    /\ net = NoNet
    /\ pc = "idle"
    /\ pos = [li |-> 1, page |-> FirstPage]
    /\ all_games = <<>>
    /\ pageLog = <<>>
    /\ scrape_date = 1
    /\ runs = 0
    /\ status = "none"
    /\ lastRun = [failed |-> "none", rows |-> FALSE]
    /\ hist = NoHist
    /\ served = 0
    /\ \E E \in SeqsUpTo(FrameRows, MaxLen), N \in SeqsUpTo(FrameRows, MaxLen) :
          m = [phase |-> "in", E |-> E, N |-> N, once |-> <<>>, twice |-> <<>>]

MergeOnce ==
    /\ m.phase = "in"
    /\ m' = [m EXCEPT !.phase = "once", !.once = Merge(m.E, m.N)]
    /\ UNCHANGED <<csv, thumbs, net, pc, pos, all_games, pageLog, scrape_date,
                   runs, status, lastRun, hist, served>>

MergeAgain ==
    /\ m.phase = "once"
    /\ m' = [m EXCEPT !.phase = "twice", !.twice = Merge(m.once, m.N)]
    /\ UNCHANGED <<csv, thumbs, net, pc, pos, all_games, pageLog, scrape_date,
                   runs, status, lastRun, hist, served>>

NextMerge == MergeOnce \/ MergeAgain

SpecMerge == InitMerge /\ [][NextMerge]_vars

(* ------------------------------ claims --------------------------------- *)

Range(f) == {f[i] : i \in DOMAIN f}

\* The keys of the stored rows, as read_csv gives them to the merge.
LoadedKeys(file) ==
    IF file.exists /\ file.header
    THEN {Key(FromCsvRow(r)) : r \in Range(file.rows)}
    ELSE {}

\* The (listing, page) pairs the two loops go through.
AllPages == {<<Labels[l], p>> : l \in 1..Len(Labels), p \in FirstPage..(StopPage - 1)}

Fetched(log) == {<<log[i].listing, log[i].page>> : i \in 1..Len(log)}

\* C1 (as claimed): after every run no two rows of the persisted dataset
\* share the dedup key (url, listingType).
C1_KeyUniqueness ==
    \A i, j \in 1..Len(csv.rows) :
        (i # j) => ~(/\ csv.rows[i].url = csv.rows[j].url
                     /\ csv.rows[i].listing = csv.rows[j].listing)

\* C2 (as claimed): when a key is both in the existing dataset and among the
\* rows scraped by the run, every row stored for it after the merge is a
\* newly scraped row.
C2_LastWriteWins ==
    [][(pc = "merge" /\ csv.exists /\ csv.header) =>
        \A g \in Range(all_games) :
            (Key(g) \in LoadedKeys(csv)) =>
                \A r \in Range(csv'.rows) :
                    (Key(FromCsvRow(r)) = Key(g)) =>
                        \E n \in Range(all_games) :
                            Key(n) = Key(g) /\ r = ToCsvRow(n)]_vars

\* The first stored row with key k, as the merge reads and rewrites it.
FirstStored(file, k) ==
    LET i == CHOOSE i \in 1..Len(file.rows) :
                 /\ Key(FromCsvRow(file.rows[i])) = k
                 /\ \A j \in 1..(i - 1) : Key(FromCsvRow(file.rows[j])) # k
    IN ToCsvRow(FromCsvRow(file.rows[i]))

\* C2 (amended): when a (title, url) key is both in the existing dataset as
\* read back and among the rows scraped by the run, exactly one row is stored
\* for it after the merge: the first previously stored row, as read back,
\* with its old price; the newly scraped row is dropped.
C2_FirstWriteWins ==
    [][(pc = "merge" /\ csv.exists /\ csv.header) =>
        \A g \in Range(all_games) :
            (Key(g) \in LoadedKeys(csv)) =>
                /\ \A r \in Range(csv'.rows) :
                       (Key(FromCsvRow(r)) = Key(g)) => r = FirstStored(csv, Key(g))
                /\ Cardinality({i \in 1..Len(csv'.rows) :
                                   Key(FromCsvRow(csv'.rows[i])) = Key(g)}) = 1]_vars

\* C2 witness: a later day's run scraped only the game the dataset already
\* held, and the one row stored is the first day's.
C2_Witness ==
    /\ pc = "idle" /\ status = "ok" /\ runs = 2 /\ lastRun.rows
    /\ \E r \in Range(csv.rows) : r.price = "$5" /\ r.scrape_date = DateStr(1)
    /\ scrape_date = 2
    /\ Len(csv.rows) = 1

\* C3: merging the batch N again into merge(E, N) gives merge(E, N).
C3_MergeIdempotent == (m.phase = "twice") => (m.twice = m.once)

\* C3 witness: both merges ran on a dataset and a batch that share a key.
C3_Witness ==
    /\ m.phase = "twice"
    /\ m.E # <<>> /\ m.N # <<>>
    /\ \E e \in Range(m.E), n \in Range(m.N) : Key(e) = Key(n) /\ e # n
    /\ Len(m.once) < Len(m.E) + Len(m.N)

\* What the site served for a row: the scraped columns and the listing,
\* without the day and the outcome of the thumbnail download.
Served(rows) ==
    [i \in 1..Len(rows) |->
        <<rows[i].title, rows[i].url, rows[i].author, rows[i].price, rows[i].listing>>]

\* C4 (as claimed): a second run that scrapes exactly the items of the first
\* run (which found no combined.csv) stores the rows the first run stored.
C4_RerunUnchanged ==
    (/\ pc = "idle" /\ status = "ok" /\ runs = 2
     /\ Served(hist.lastGames) = Served(hist.prevGames))
        => csv = hist.prevCsv

\* C5 (as claimed): merging and saving after each run, from no file, gives
\* the dataset one merge of all the runs' batches gives.
C5_RunsAssociative ==
    (pc = "idle" /\ status = "ok")
        => csv.rows = ToCsv(Merge(<<>>, hist.batches), TRUE).rows

\* C6 (as claimed): no page of a listing is fetched after a page of that
\* listing that yielded zero stubs.
C6_StopsAtEmptyPage ==
    \A i, j \in 1..Len(pageLog) :
        (i < j /\ pageLog[i].listing = pageLog[j].listing)
            => pageLog[i].outcome # "empty"

\* The pages of a listing fetched so far in the run.
PagesFetched(label) ==
    Cardinality({i \in 1..Len(pageLog) : pageLog[i].listing = label})

\* C6 (amended): a listing's page loop never fetches more pages than its
\* bound, and when the loops are over every listing has had exactly that
\* many pages fetched, zero-stub pages or not.
C6_FixedPageCount ==
    /\ \A label \in Range(Labels) : PagesFetched(label) <= StopPage - FirstPage
    /\ (pc = "merge") =>
           \A label \in Range(Labels) : PagesFetched(label) = StopPage - FirstPage

\* C6 witness: the loops are over, and a page that yielded rows was fetched
\* after a zero-stub page of the same listing.
C6_Witness ==
    /\ pc = "merge"
    /\ \E i, j \in 1..Len(pageLog) :
          /\ i < j /\ pageLog[i].listing = pageLog[j].listing
          /\ pageLog[i].outcome = "empty" /\ pageLog[j].outcome = "items"

C8_ThumbnailFetchedOnce ==
    /\ net.hitGets = 0
    /\ \A p \in DOMAIN thumbs : thumbs[p] <= 1

\* C8 (amended): every request for a thumbnail URL performs one network
\* fetch, whether or not the file exists at its derived path.
C8_EveryRequestFetches ==
    \A u \in ThumbUrls : net.gets[u] = net.reqs[u]

\* C8 witness: a URL was requested twice, the second time with its file in
\* place, and the file was fetched and written again.
C8_Witness ==
    /\ \E u \in ThumbUrls : net.reqs[u] >= 2
    /\ net.hitGets >= 1
    /\ \E p \in DOMAIN thumbs : thumbs[p] >= 2

====
